---- MODULE Spec2Model ----
(***************************************************************************)
(* A model of crabtype's typing session: the event loop of main.rs, the    *)
(* TypingState / StatsState state machine of states/typing.rs and          *)
(* states/stats.rs and the word-wrap layout of typingwidget.rs.            *)
(*                                                                         *)
(* Strings are sequences of one-character strings.  Vec indices keep the   *)
(* source's 0-based values; TLA+ sequences are 1-based, so the element the *)
(* source calls v[i] is v[i + 1] here.  Option<T> is the empty sequence    *)
(* (None) or a one-element sequence (Some).  Time is counted in whole      *)
(* seconds; f64 quantities are exact rationals <<numerator, denominator>>. *)
(***************************************************************************)
EXTENDS Integers, Sequences, FiniteSets, TLC

VARIABLES
    pc,             \* position in run_app's loop, or how it was left
    now,            \* the monotonic clock read by Instant::now / elapsed
    app_state,      \* which State implementation app.state holds
    written_words,  \* TypingState.written_words
    start_time,     \* TypingState.start_time
    rows,           \* TypingState.rows
    word_list,      \* TypingState.word_list
    key_strokes,    \* TypingState.key_strokes
    mode,           \* TypingState.mode
    stats,          \* the StatsState, once app.state holds one
    call            \* the last library function applied on its own: its
                    \* name, arguments and result

vars == <<pc, now, app_state, written_words, start_time, rows, word_list,
          key_strokes, mode, stats, call>>

----------------------------------------------------------------------------
(* Bounds of the model *)

MaxLog == 3
MaxTime == 2
MaxDur == 1
MaxWords == 3
MaxWidth == 3
MaxLen == 2
MaxPairs == 2
MaxSecs == 2
MaxKs == 3
MaxStamp == 3

(* Program constants *)

MaxHeight == 3
SeriesPoints == 20
CharsPerWord == 5
SecsPerMinute == 60

----------------------------------------------------------------------------
(* Helpers *)

None == <<>>
Some(x) == <<x>>

Min(a, b) == IF a < b THEN a ELSE b
Max(a, b) == IF a > b THEN a ELSE b

Front(s) == SubSeq(s, 1, Len(s) - 1)
Last(s) == s[Len(s)]

RECURSIVE Gcd(_, _)
Gcd(a, b) == IF b = 0 THEN a ELSE Gcd(b, a % b)

(* an f64 as an exact fraction in lowest terms; <<1, 0>> is infinity and   *)
(* <<0, 0>> is NaN                                                         *)
Rat(n, d) ==
    IF d = 0 THEN (IF n = 0 THEN <<0, 0>> ELSE <<1, 0>>)
    ELSE LET g == Gcd(n, d) IN <<n \div g, d \div g>>

----------------------------------------------------------------------------
(* Inputs *)

WordLists ==
    { << <<"a">>, <<"b">>, <<"a", "b">> >>,
      << <<"a", "b">>, <<"a">> >> }

Duration(d) == [kind |-> "Duration", n |-> d]
Words(n) == [kind |-> "Words", n |-> n]

Modes == {Duration(d) : d \in 1..MaxDur} \cup {Words(n) : n \in 0..MaxWords}

Key(code, ctrl, kind) == [code |-> code, ctrl |-> ctrl, kind |-> kind]

KeyEvents ==
    { Key("a", FALSE, "Press"), Key("a", TRUE, "Press"),
      Key(" ", FALSE, "Press"),
      Key("Backspace", FALSE, "Press"), Key("Backspace", TRUE, "Press"),
      Key("w", TRUE, "Press"), Key("c", TRUE, "Press"),
      Key("Esc", FALSE, "Press"), Key("Enter", FALSE, "Press"),
      Key("a", FALSE, "Release"), Key("Esc", FALSE, "Release") }

PrintableChars == {"a", "b", "c", "w"}

Areas == [width : 2..MaxWidth, height : 0..MaxHeight]

SeqsUpTo(S, n) == UNION {[1..k -> S] : k \in 0..n}

Strings == SeqsUpTo({"a", "b"}, MaxLen)

WordArrays == SeqsUpTo(Strings, MaxPairs)

TimeSteps == {<<1, 2>>, <<1, 1>>, <<3, 2>>, <<2, 1>>}

----------------------------------------------------------------------------
(* TypingState: the part of it the editing operations read and write *)

Self(ww, wl, ks) ==
    [written_words |-> ww, word_list |-> wl, key_strokes |-> ks, panic |-> FALSE]

Panic(s) == [s EXCEPT !.panic = TRUE]

Resize(wl, n) ==
    [i \in 1..n |-> IF i <= Len(wl) THEN wl[i] ELSE <<>>]

NewWordList(wl, m) == IF m.kind = "Words" THEN Resize(wl, m.n) ELSE wl

Correct(c, t) == [time |-> t, kind |-> "Correct", c |-> c, n |-> 0]
Incorrect(c, t) == [time |-> t, kind |-> "Incorrect", c |-> c, n |-> 0]
Space(n, t) == [time |-> t, kind |-> "Space", c |-> " ", n |-> n]

(* remove_empty comparing the last buffer, not the one before it *)
remove_empty_last_index(s) ==
    LET ww == s.written_words
        len == Len(ww)
    IN  IF len > 1
        THEN IF len - 1 >= Len(s.word_list)
             THEN Panic(s)
             ELSE IF ww[len] # s.word_list[len]
                  THEN [s EXCEPT !.written_words = Front(ww)]
                  ELSE s
        ELSE s

(* remove_empty without the comparison with the target word *)
remove_empty_always(s) ==
    LET ww == s.written_words
        len == Len(ww)
    IN  IF len > 1
        THEN IF len - 2 >= Len(s.word_list)
             THEN Panic(s)
             ELSE [s EXCEPT !.written_words = Front(ww)]
        ELSE s

(* remove_empty without the len() > 1 test: the only buffer is popped too *)
remove_empty_unguarded(s) ==
    LET ww == s.written_words
        len == Len(ww)
    IN  IF len > 1 /\ len - 2 >= Len(s.word_list)
        THEN Panic(s)
        ELSE IF len > 1 /\ ww[len - 1] = s.word_list[len - 1]
             THEN s
             ELSE [s EXCEPT !.written_words = Front(ww)]

remove_empty(s) ==
    LET ww == s.written_words
        len == Len(ww)
    IN  IF len > 1
        THEN IF len - 2 >= Len(s.word_list)
             THEN Panic(s)
             ELSE IF ww[len - 1] # s.word_list[len - 1]
                  THEN [s EXCEPT !.written_words = Front(ww)]
                  ELSE s
        ELSE s

remove_char(s) ==
    LET ww == s.written_words
    IN  IF ww = <<>> THEN s
        ELSE IF Last(ww) = <<>>
             THEN remove_empty(s)
             ELSE [s EXCEPT !.written_words[Len(ww)] = Front(Last(ww))]

(* remove_word without the clear() that follows remove_empty *)
remove_word_reopen_only(s) ==
    LET ww == s.written_words
    IN  IF ww = <<>> THEN s
        ELSE IF Last(ww) = <<>>
             THEN remove_empty(s)
             ELSE [s EXCEPT !.written_words[Len(ww)] = <<>>]

remove_word(s) ==
    LET ww == s.written_words
    IN  IF ww = <<>> THEN s
        ELSE IF Last(ww) = <<>>
             THEN LET r == remove_empty(s)
                  IN  IF r.panic THEN r
                      ELSE [r EXCEPT !.written_words[Len(r.written_words)] = <<>>]
             ELSE [s EXCEPT !.written_words[Len(ww)] = <<>>]

(* add_char reading the target at nth(len) instead of nth(len - 1) *)
add_char_off_by_one(s, c, elapsed) ==
    LET ww == s.written_words
    IN  IF ww = <<>> THEN s
        ELSE LET pushed == [s EXCEPT !.written_words[Len(ww)] = Append(Last(ww), c)]
                 len == Len(Last(ww)) + 1
                 i == Len(ww) - 1
             IN  IF i >= Len(s.word_list)
                 THEN Panic(pushed)
                 ELSE LET word == s.word_list[i + 1]
                          hit == len < Len(word) /\ word[len + 1] = c
                      IN  [pushed EXCEPT !.key_strokes =
                             Append(s.key_strokes,
                                    IF hit THEN Correct(c, elapsed)
                                    ELSE Incorrect(c, elapsed))]

add_char(s, c, elapsed) ==
    LET ww == s.written_words
    IN  IF ww = <<>> THEN s
        ELSE LET pushed == [s EXCEPT !.written_words[Len(ww)] = Append(Last(ww), c)]
                 len == Len(Last(ww)) + 1
                 i == Len(ww) - 1
             IN  IF i >= Len(s.word_list)
                 THEN Panic(pushed)
                 ELSE LET word == s.word_list[i + 1]
                          hit == len - 1 < Len(word) /\ word[len] = c
                      IN  [pushed EXCEPT !.key_strokes =
                             Append(s.key_strokes,
                                    IF hit THEN Correct(c, elapsed)
                                    ELSE Incorrect(c, elapsed))]

(* add_space computing the overflow after the new buffer is pushed *)
add_space_after_reset(s, elapsed) ==
    LET ww == s.written_words
        i == Len(ww) - 1
    IN  IF i < 0 \/ i >= Len(s.word_list)
        THEN Panic(s)
        ELSE [s EXCEPT
                !.key_strokes =
                    Append(s.key_strokes,
                           Space(0 - Len(s.word_list[i + 1]), elapsed)),
                !.written_words = Append(ww, <<>>)]

(* add_space without the push onto key_strokes *)
add_space_unlogged(s, elapsed) ==
    LET ww == s.written_words
        i == Len(ww) - 1
    IN  IF i < 0 \/ i >= Len(s.word_list)
        THEN Panic(s)
        ELSE [s EXCEPT !.written_words = Append(ww, <<>>)]

add_space(s, elapsed) ==
    LET ww == s.written_words
        i == Len(ww) - 1
    IN  IF i < 0 \/ i >= Len(s.word_list)
        THEN Panic(s)
        ELSE [s EXCEPT
                !.key_strokes =
                    Append(s.key_strokes,
                           Space(Len(ww[i + 1]) - Len(s.word_list[i + 1]), elapsed)),
                !.written_words = Append(ww, <<>>)]

(* the match of TypingState::handle_event on a Press event *)
TypingMatch(s, key, elapsed) ==
    IF key.code \in {"w", "Backspace"} /\ key.ctrl THEN remove_word(s)
    ELSE IF key.code \in PrintableChars THEN add_char(s, key.code, elapsed)
    ELSE IF key.code = " " THEN add_space(s, elapsed)
    ELSE IF key.code = "Backspace" THEN remove_char(s)
    ELSE s

(* main.rs handle_event: TRUE when the key leaves the loop *)
handle_event(key) ==
    IF key.kind = "Press"
    THEN \/ key.code = "Esc"
         \/ key.code = "c" /\ key.ctrl
    ELSE FALSE

----------------------------------------------------------------------------
(* states/stats.rs *)

normalize_wpm(char_amount, time) ==
    Rat(char_amount * SecsPerMinute * time[2], CharsPerWord * time[1])

(* itertools' zip_longest: Both while both sides last, then Left or Right *)
RECURSIVE zip_longest(_, _)
zip_longest(l, r) ==
    IF l = <<>> /\ r = <<>> THEN <<>>
    ELSE IF r = <<>>
         THEN <<[e |-> "Left", l |-> Head(l), r |-> ""]>> \o zip_longest(Tail(l), r)
    ELSE IF l = <<>>
         THEN <<[e |-> "Right", l |-> "", r |-> Head(r)]>> \o zip_longest(l, Tail(r))
    ELSE <<[e |-> "Both", l |-> Head(l), r |-> Head(r)]>>
         \o zip_longest(Tail(l), Tail(r))

(* word_difference with the Left and Right arms exchanged *)
word_difference_swapped(correct_word, input) ==
    LET z == zip_longest(correct_word, input)
    IN  [k \in DOMAIN z |->
            IF z[k].e = "Left" THEN "Extra"
            ELSE IF z[k].e = "Right" THEN "Missed"
            ELSE IF z[k].l = z[k].r THEN "Correct"
            ELSE "Incorrect"]

word_difference(correct_word, input) ==
    LET z == zip_longest(correct_word, input)
    IN  [k \in DOMAIN z |->
            IF z[k].e = "Left" THEN "Missed"
            ELSE IF z[k].e = "Right" THEN "Extra"
            ELSE IF z[k].l = z[k].r THEN "Correct"
            ELSE "Incorrect"]

Count(diff, kind) == Cardinality({k \in DOMAIN diff : diff[k] = kind})

DefaultFinalStats ==
    [wpm |-> 0, raw_wpm |-> 0, correct |-> 0, incorrect |-> 0, extra |-> 0, missed |-> 0]

(* the closure without the raw_wpm -= 1.0 of the prefix arm *)
CalculateStepNoDecrement(acc, i, input, correct, n_inputted) ==
    LET final == i = n_inputted - 1
        prefix == /\ final
                  /\ Len(input) <= Len(correct)
                  /\ input = SubSeq(correct, 1, Len(input))
        target == IF ~final THEN correct
                  ELSE SubSeq(correct, 1, Min(Len(input), Len(correct)))
        d == word_difference(target, input)
    IN  [wpm |-> acc.wpm + (IF input = correct THEN Len(input) + 1
                            ELSE IF prefix THEN Len(input) ELSE 0),
         raw_wpm |-> acc.raw_wpm + Len(input) + 1,
         correct |-> acc.correct + Count(d, "Correct"),
         incorrect |-> acc.incorrect + Count(d, "Incorrect"),
         extra |-> acc.extra + Count(d, "Extra"),
         missed |-> acc.missed + Count(d, "Missed")]

(* the closure diffing the last word against its whole target as well *)
CalculateStepFullTarget(acc, i, input, correct, n_inputted) ==
    LET final == i = n_inputted - 1
        prefix == /\ final
                  /\ Len(input) <= Len(correct)
                  /\ input = SubSeq(correct, 1, Len(input))
        d == word_difference(correct, input)
    IN  [wpm |-> acc.wpm + (IF input = correct THEN Len(input) + 1
                            ELSE IF prefix THEN Len(input) ELSE 0),
         raw_wpm |-> acc.raw_wpm
                     - (IF input # correct /\ prefix THEN 1 ELSE 0)
                     + Len(input) + 1,
         correct |-> acc.correct + Count(d, "Correct"),
         incorrect |-> acc.incorrect + Count(d, "Incorrect"),
         extra |-> acc.extra + Count(d, "Extra"),
         missed |-> acc.missed + Count(d, "Missed")]

(* the closure folded over the zipped pairs; i is the 0-based position *)
(* the closure adding input.len() to raw_wpm, without the + 1.0 *)
CalculateStepRawNoSpace(acc, i, input, correct, n_inputted) ==
    LET final == i = n_inputted - 1
        prefix == /\ final
                  /\ Len(input) <= Len(correct)
                  /\ input = SubSeq(correct, 1, Len(input))
        target == IF ~final THEN correct
                  ELSE SubSeq(correct, 1, Min(Len(input), Len(correct)))
        d == word_difference(target, input)
    IN  [wpm |-> acc.wpm + (IF input = correct THEN Len(input) + 1
                            ELSE IF prefix THEN Len(input) ELSE 0),
         raw_wpm |-> acc.raw_wpm
                     - (IF input # correct /\ prefix THEN 1 ELSE 0)
                     + Len(input),
         correct |-> acc.correct + Count(d, "Correct"),
         incorrect |-> acc.incorrect + Count(d, "Incorrect"),
         extra |-> acc.extra + Count(d, "Extra"),
         missed |-> acc.missed + Count(d, "Missed")]

CalculateStep(acc, i, input, correct, n_inputted) ==
    LET final == i = n_inputted - 1
        prefix == /\ final
                  /\ Len(input) <= Len(correct)
                  /\ input = SubSeq(correct, 1, Len(input))
        target == IF ~final THEN correct
                  ELSE SubSeq(correct, 1, Min(Len(input), Len(correct)))
        d == word_difference(target, input)
    IN  [wpm |-> acc.wpm + (IF input = correct THEN Len(input) + 1
                            ELSE IF prefix THEN Len(input) ELSE 0),
         raw_wpm |-> acc.raw_wpm
                     - (IF input # correct /\ prefix THEN 1 ELSE 0)
                     + Len(input) + 1,
         correct |-> acc.correct + Count(d, "Correct"),
         incorrect |-> acc.incorrect + Count(d, "Incorrect"),
         extra |-> acc.extra + Count(d, "Extra"),
         missed |-> acc.missed + Count(d, "Missed")]

RECURSIVE CalculateFold(_, _, _, _)
CalculateFold(acc, i, inputted_words, correct_words) ==
    IF i >= Min(Len(inputted_words), Len(correct_words)) THEN acc
    ELSE CalculateFold(
            CalculateStep(acc, i, inputted_words[i + 1], correct_words[i + 1],
                          Len(inputted_words)),
            i + 1, inputted_words, correct_words)

calculate(inputted_words, correct_words, test_duration) ==
    LET result == CalculateFold(DefaultFinalStats, 0, inputted_words, correct_words)
    IN  [result EXCEPT
            !.wpm = normalize_wpm(result.wpm, <<test_duration, 1>>),
            !.raw_wpm = normalize_wpm(result.raw_wpm, <<test_duration, 1>>)]

(* calculate_accuracy without the guard i != &0 on the Space arm *)
calculate_accuracy_every_space(ks) ==
    LET correct == Cardinality({k \in DOMAIN ks : ks[k].kind = "Correct"})
        incorrect == Cardinality({k \in DOMAIN ks :
                        ks[k].kind \in {"Incorrect", "Space"}})
    IN  Rat(correct, correct + incorrect)

calculate_accuracy(ks) ==
    LET correct == Cardinality({k \in DOMAIN ks : ks[k].kind = "Correct"})
        incorrect == Cardinality({k \in DOMAIN ks :
                        \/ ks[k].kind = "Incorrect"
                        \/ ks[k].kind = "Space" /\ ks[k].n # 0})
    IN  Rat(correct, correct + incorrect)

(* max(test_duration / 20, 0.5) seconds, as a fraction *)
TimeStep(test_duration) ==
    IF 2 * test_duration > SeriesPoints THEN <<test_duration, SeriesPoints>> ELSE <<1, 2>>

(* the bucket key rounded down instead of up *)
BatchKeyFloor(dur, time_step) ==
    (dur * time_step[2]) \div time_step[1]

(* ceil(dur / time_step) *)
BatchKey(dur, time_step) ==
    (dur * time_step[2] + time_step[1] - 1) \div time_step[1]

(* group_by: the end of the run of equal keys that starts at position i *)
RECURSIVE GroupEnd(_, _, _)
GroupEnd(ks, i, time_step) ==
    IF i < Len(ks) /\ BatchKey(ks[i + 1].time, time_step) = BatchKey(ks[i].time, time_step)
    THEN GroupEnd(ks, i + 1, time_step)
    ELSE i

RECURSIVE BatchFrom(_, _, _)
BatchFrom(ks, i, time_step) ==
    IF i > Len(ks) THEN <<>>
    ELSE LET j == GroupEnd(ks, i, time_step)
             key == BatchKey(ks[i].time, time_step)
             chars == j - i + 1
             errors == Cardinality({k \in i..j : ks[k].kind = "Incorrect"})
         IN  <<[t |-> Rat(key * time_step[1], time_step[2]),
                chars |-> chars, errors |-> errors]>>
             \o BatchFrom(ks, j + 1, time_step)

batch_key_strokes(ks, time_step) == BatchFrom(ks, 1, time_step)

StatsNew(ks, test_duration, inputted_words, correct_words) ==
    LET time_step == TimeStep(test_duration)
        batched_ks == batch_key_strokes(ks, time_step)
        HasErrors(b) == b.errors # 0
        with_errors == SelectSeq(batched_ks, HasErrors)
    IN  [raw_wpms |-> [k \in DOMAIN batched_ks |->
                          <<batched_ks[k].t, normalize_wpm(batched_ks[k].chars, time_step)>>],
         errors_wpms |-> [k \in DOMAIN with_errors |->
                          <<with_errors[k].t, normalize_wpm(with_errors[k].errors, time_step)>>],
         accuracy |-> calculate_accuracy(ks),
         key_strokes |-> ks,
         test_duration |-> test_duration,
         final_stats |-> calculate(inputted_words, correct_words, test_duration)]

(* update comparing with >= where the source compares with > *)
typing_update_early(ww, wl, ks, start, m, clock) ==
    IF start = None THEN None
    ELSE LET elapsed == clock - start[1]
         IN  IF m.kind = "Duration"
             THEN IF elapsed >= m.n THEN Some(StatsNew(ks, m.n, wl, ww)) ELSE None
             ELSE IF Len(ww) >= m.n THEN Some(StatsNew(ks, elapsed, wl, ww)) ELSE None

(* update handing the elapsed time to StatsState::new in both modes *)
typing_update_elapsed(ww, wl, ks, start, m, clock) ==
    IF start = None THEN None
    ELSE LET elapsed == clock - start[1]
         IN  IF m.kind = "Duration"
             THEN IF elapsed > m.n THEN Some(StatsNew(ks, elapsed, wl, ww)) ELSE None
             ELSE IF Len(ww) > m.n THEN Some(StatsNew(ks, elapsed, wl, ww)) ELSE None

(* TypingState::update: the StatsState it returns, or None to stay *)
typing_update(ww, wl, ks, start, m, clock) ==
    IF start = None THEN None
    ELSE LET elapsed == clock - start[1]
         IN  IF m.kind = "Duration"
             THEN IF elapsed > m.n THEN Some(StatsNew(ks, m.n, wl, ww)) ELSE None
             ELSE IF Len(ww) > m.n THEN Some(StatsNew(ks, elapsed, wl, ww)) ELSE None

----------------------------------------------------------------------------
(* typingwidget.rs *)

(* input is an Option: None past the end of written_words *)
combine_input(input, word) ==
    IF input = None THEN word
    ELSE LET s == input[1]
         IN  IF Len(word) > Len(s)
             THEN s \o SubSeq(word, Len(s) + 1, Len(word))
             ELSE s

(* the styles render_input_dif lays over the cells of one word *)
render_input_dif(input, word) ==
    IF input = word
    THEN [k \in 1..Len(word) |-> "correct"]
    ELSE [k \in 1..Len(input) |->
            IF k <= Len(word) /\ word[k] = input[k] THEN "correct" ELSE "error"]

InputAt(ww, input_index) ==
    IF input_index < Len(ww) THEN Some(ww[input_index + 1]) ELSE None

(* the cursor test written cursor_x > area.width *)
CursorCellPastOnly(x, y, input, rect) ==
    LET cursor_x == x + Len(input)
    IN  IF cursor_x > rect.width THEN <<0, y + 1>> ELSE <<cursor_x, y>>

(* the cursor cell of the active word laid out at (x, y) *)
CursorCell(x, y, input, rect) ==
    LET cursor_x == x + Len(input)
    IN  IF cursor_x >= rect.width THEN <<0, y + 1>> ELSE <<cursor_x, y>>

(* new_rows.remove(0) for the active word on any row *)
ScrolledAlways(new_rows, active, y) ==
    IF active THEN Tail(new_rows) ELSE new_rows

(* the window moves one row on when the active word is on row 2 or below *)
Scrolled(new_rows, active, y) ==
    IF active /\ y >= 2 THEN Tail(new_rows) ELSE new_rows

(* the body of render's for loop from word input_index on; r carries x, y, *)
(* new_rows and what has been drawn so far                                 *)
RECURSIVE RenderLoop(_, _, _, _, _)
RenderLoop(r, input_index, wl, ww, rect) ==
    IF input_index >= Len(wl) THEN r
    ELSE
    LET word == wl[input_index + 1]
        input == InputAt(ww, input_index)
        word_to_display == combine_input(input, word)
        wrap == r.x + Len(word_to_display) > rect.width
        y == IF wrap THEN r.y + 1 ELSE r.y
        x == IF wrap THEN 0 ELSE r.x
        pushed == IF wrap THEN Append(r.new_rows, input_index) ELSE r.new_rows
    IN  IF y >= rect.height
        THEN [r EXCEPT !.x = x, !.y = y, !.new_rows = pushed]
        ELSE
        LET active == input_index = Len(ww) - 1
            new_rows == Scrolled(pushed, active, y)
            cursor == IF ~active THEN r.cursor
                      ELSE Some(CursorCell(x, y, input[1], rect))
            cell == [x |-> x, y |-> y, text |-> word_to_display,
                     styles |-> IF input = None THEN <<>>
                                ELSE render_input_dif(input[1], word)]
        IN  RenderLoop([x |-> x + Len(word_to_display) + 1, y |-> y,
                        new_rows |-> new_rows,
                        cells |-> Append(r.cells, cell),
                        cursor |-> cursor],
                       input_index + 1, wl, ww, rect)

(* TypingWidget::render: what it draws and the rows it leaves in the state *)
render(rect, rs, wl, ww) ==
    LET r == RenderLoop([x |-> 0, y |-> 0, new_rows |-> <<rs[1]>>,
                         cells |-> <<>>, cursor |-> None],
                        rs[1], wl, ww, rect)
    IN  [rows |-> r.new_rows, cells |-> r.cells, cursor |-> r.cursor]

----------------------------------------------------------------------------
(* The program *)

NoCall == [op |-> "none", args |-> <<>>, result |-> <<>>]

Init ==
    /\ pc = "draw"
    /\ now = 0
    /\ app_state = "Typing"
    /\ written_words = << <<>> >>
    /\ start_time = None
    /\ rows = <<0>>
    /\ mode \in Modes
    /\ \E wl \in WordLists : word_list = NewWordList(wl, mode)
    /\ key_strokes = <<>>
    /\ stats = None
    /\ call = NoCall

(* terminal.draw(|f| ui(f, &mut app)): TypingState::render lays the words  *)
(* out in the rectangle the terminal size gives; StatsState::render only   *)
(* reads                                                                   *)
Draw ==
    /\ pc = "draw"
    /\ UNCHANGED call
    /\ pc' = "poll"
    /\ IF app_state = "Typing"
       THEN \E rect \in Areas :
               rows' = render(rect, rows, word_list, written_words).rows
       ELSE UNCHANGED rows
    /\ UNCHANGED <<now, app_state, written_words, start_time, word_list,
                   key_strokes, mode, stats>>

(* event::poll timed out, or the event read was not a key event *)
PollNone ==
    /\ pc = "poll"
    /\ UNCHANGED call
    /\ pc' = "update"
    /\ UNCHANGED <<now, app_state, written_words, start_time, rows, word_list,
                   key_strokes, mode, stats>>

(* handle_event reading the clock without storing it in start_time *)
typing_handle_event_unstored(key, ww, wl, ks, start, clock) ==
    IF key.kind = "Press"
    THEN LET time == IF start = None THEN clock ELSE start[1]
             s == TypingMatch(Self(ww, wl, ks), key, clock - time)
         IN  [written_words |-> s.written_words, key_strokes |-> s.key_strokes,
              start_time |-> start, panic |-> s.panic]
    ELSE [written_words |-> ww, key_strokes |-> ks, start_time |-> start,
          panic |-> FALSE]

(* TypingState::handle_event: the fields it leaves in the state *)
typing_handle_event(key, ww, wl, ks, start, clock) ==
    IF key.kind = "Press"
    THEN LET time == IF start = None THEN clock ELSE start[1]
             s == TypingMatch(Self(ww, wl, ks), key, clock - time)
         IN  [written_words |-> s.written_words, key_strokes |-> s.key_strokes,
              start_time |-> Some(time), panic |-> s.panic]
    ELSE [written_words |-> ww, key_strokes |-> ks, start_time |-> start,
          panic |-> FALSE]

(* StatsState::handle_event and StatsState::update return self *)
stats_handle_event(st, key) == st

(* an update that keeps the test's clock running *)
stats_update_running(st) == [st EXCEPT !.test_duration = @ + 1]

stats_update(st) == st

(* the loop body with the state's handle_event called before the quit check *)
PollKeyHandledFirst ==
    /\ pc = "poll"
    /\ UNCHANGED call
    /\ \E key \in KeyEvents :
        IF app_state = "Typing"
        THEN LET t == typing_handle_event(key, written_words, word_list,
                                          key_strokes, start_time, now)
             IN  /\ Len(t.key_strokes) <= MaxLog
                 /\ written_words' = t.written_words
                 /\ key_strokes' = t.key_strokes
                 /\ start_time' = t.start_time
                 /\ pc' = IF t.panic THEN "panicked"
                          ELSE IF handle_event(key) THEN "exited" ELSE "update"
                 /\ UNCHANGED stats
        ELSE /\ pc' = IF handle_event(key) THEN "exited" ELSE "update"
             /\ stats' = Some(stats_handle_event(stats[1], key))
             /\ UNCHANGED <<start_time, written_words, key_strokes>>
    /\ UNCHANGED <<now, app_state, rows, word_list, mode>>

(* a key event was read: the quit check of main.rs, then the state's       *)
(* handle_event                                                            *)
PollKey ==
    /\ pc = "poll"
    /\ UNCHANGED call
    /\ \E key \in KeyEvents :
        IF handle_event(key)
        THEN /\ pc' = "exited"
             /\ UNCHANGED <<start_time, written_words, key_strokes, stats>>
        ELSE IF app_state = "Typing"
             THEN LET t == typing_handle_event(key, written_words, word_list,
                                               key_strokes, start_time, now)
                  IN  /\ Len(t.key_strokes) <= MaxLog
                      /\ written_words' = t.written_words
                      /\ key_strokes' = t.key_strokes
                      /\ start_time' = t.start_time
                      /\ pc' = IF t.panic THEN "panicked" ELSE "update"
                      /\ UNCHANGED stats
             ELSE /\ pc' = "update"
                  /\ stats' = Some(stats_handle_event(stats[1], key))
                  /\ UNCHANGED <<start_time, written_words, key_strokes>>
    /\ UNCHANGED <<now, app_state, rows, word_list, mode>>

(* app.state = state.update(): TypingState::update may hand over to a      *)
(* StatsState, StatsState::update returns itself                           *)
Update ==
    /\ pc = "update"
    /\ UNCHANGED call
    /\ pc' = "draw"
    /\ IF app_state = "Typing"
       THEN LET next == typing_update(written_words, word_list, key_strokes,
                                      start_time, mode, now)
            IN  IF next # None
                THEN /\ app_state' = "Stats"
                     /\ stats' = next
                ELSE UNCHANGED <<app_state, stats>>
       ELSE /\ stats' = Some(stats_update(stats[1]))
            /\ UNCHANGED app_state
    /\ UNCHANGED <<now, written_words, start_time, rows, word_list,
                   key_strokes, mode>>

(* time passes *)
Tick ==
    /\ pc \in {"draw", "poll", "update"}
    /\ UNCHANGED call
    /\ now < MaxTime
    /\ now' = now + 1
    /\ UNCHANGED <<pc, app_state, written_words, start_time, rows, word_list,
                   key_strokes, mode, stats>>

Next == Draw \/ PollNone \/ PollKey \/ Update \/ Tick

Spec == Init /\ [][Next]_vars

(* the loop is never suspended for longer than the poll's timeout *)
FairSpec == Spec /\ WF_vars(Draw) /\ WF_vars(PollNone \/ PollKey) /\ WF_vars(Update)

----------------------------------------------------------------------------
(* The functions of states/stats.rs applied on their own, once, to any      *)
(* arguments                                                               *)

StampedLogs ==
    {ks \in SeqsUpTo([time : 0..MaxStamp, kind : {"Correct", "Incorrect", "Space"},
                      c : {"a"}, n : {0}], MaxKs) :
        \A k \in 1..Len(ks) - 1 : ks[k].time <= ks[k + 1].time}

FnInit ==
    /\ pc = "fn"
    /\ now = 0
    /\ app_state = "Typing"
    /\ written_words = << <<>> >>
    /\ start_time = None
    /\ rows = <<0>>
    /\ mode = Duration(1)
    /\ word_list = <<>>
    /\ key_strokes = <<>>
    /\ stats = None
    /\ call = NoCall

CallWordDifference ==
    /\ call.op = "none"
    /\ \E correct_word \in Strings, input \in Strings :
        call' = [op |-> "word_difference",
                 args |-> <<correct_word, input>>,
                 result |-> word_difference(correct_word, input)]
    /\ UNCHANGED <<pc, now, app_state, written_words, start_time, rows,
                   word_list, key_strokes, mode, stats>>

CallCalculate ==
    /\ call.op = "none"
    /\ \E inputted_words \in WordArrays, correct_words \in WordArrays,
          secs \in 1..MaxSecs :
        call' = [op |-> "calculate",
                 args |-> <<inputted_words, correct_words, secs>>,
                 result |-> calculate(inputted_words, correct_words, secs)]
    /\ UNCHANGED <<pc, now, app_state, written_words, start_time, rows,
                   word_list, key_strokes, mode, stats>>

CallBatchKeyStrokes ==
    /\ call.op = "none"
    /\ \E ks \in StampedLogs, time_step \in TimeSteps :
        call' = [op |-> "batch_key_strokes",
                 args |-> <<ks, time_step>>,
                 result |-> batch_key_strokes(ks, time_step)]
    /\ UNCHANGED <<pc, now, app_state, written_words, start_time, rows,
                   word_list, key_strokes, mode, stats>>

FnNext == CallWordDifference \/ CallCalculate \/ CallBatchKeyStrokes

FnSpec == FnInit /\ [][FnNext]_vars

----------------------------------------------------------------------------
(* Properties *)

NumSpaces(ks) == Cardinality({k \in DOMAIN ks : ks[k].kind = "Space"})

Elapsed == now - start_time[1]

Started == start_time # None

(* C1, as stated: in every state of an Active session the number of input  *)
(* buffers minus one equals the number of Space events in the log.         *)
C1_BuffersEqualSpaces ==
    app_state = "Typing" => Len(written_words) - 1 = NumSpaces(key_strokes)

(* C1, amended: the number of input buffers minus one never exceeds the    *)
(* number of Space events in the log, and every step either changes the    *)
(* two by the same amount or removes one buffer and leaves the log alone   *)
(* (a backspace or control-backspace reopening the previous word).         *)
C1_BuffersAtMostSpaces ==
    /\ [](Len(written_words) - 1 <= NumSpaces(key_strokes))
    /\ [][\/ Len(written_words') - Len(written_words)
               = NumSpaces(key_strokes') - NumSpaces(key_strokes)
          \/ /\ Len(written_words') = Len(written_words) - 1
             /\ key_strokes' = key_strokes]_vars

C1_Witness ==
    /\ app_state = "Typing"
    /\ Len(written_words) - 1 < NumSpaces(key_strokes)

(* C2: written_words always has at least one element, whatever sequence of *)
(* backspace, control-backspace, character and space events was handled.   *)
C2_AtLeastOneBuffer == Len(written_words) >= 1

(* a space was typed and backspacing has removed buffers down to one *)
C2_Witness ==
    /\ Len(written_words) = 1
    /\ NumSpaces(key_strokes) >= 1
    /\ pc = "update"

(* C3, as stated: the start instant is unset until a character or a space  *)
(* has been typed (which leaves an entry in the log), so no session is     *)
(* Finalized with an empty log.                                            *)
C3_StartNeedsKeystroke ==
    (Started /\ pc # "panicked") => key_strokes # <<>>

(* C3, amended: while the start instant is unset the log is empty and the  *)
(* session is Active; the start instant is set by the first key press of   *)
(* any kind that reaches the session (backspace, control-backspace and     *)
(* other keys included, releases and quit keys excluded), to the time of   *)
(* that press, and never changes afterwards.                               *)
C3_StartOnFirstPress ==
    /\ [](~Started => key_strokes = <<>> /\ app_state = "Typing")
    /\ [][start_time' # start_time =>
            /\ ~Started
            /\ start_time' = Some(now)
            /\ pc = "poll" /\ pc' \in {"update", "panicked"}]_vars

(* a Duration session that ended without a character or space typed *)
C3_Witness ==
    /\ app_state = "Stats"
    /\ mode.kind = "Duration"
    /\ key_strokes = <<>>

(* C4: in Words(n) mode a Finalized session has more than n buffers, and   *)
(* an Active session whose buffer count a key event has raised above n is  *)
(* at the update of the same iteration: no poll or render sees it.         *)
C4_WordCountEnds ==
    mode.kind = "Words" =>
        /\ app_state = "Stats" => Len(written_words) > mode.n
        /\ (app_state = "Typing" /\ Len(written_words) > 1
              /\ Len(written_words) > mode.n) => pc = "update"

C4_Witness ==
    /\ mode.kind = "Words"
    /\ mode.n >= 1
    /\ app_state = "Stats"
    /\ Len(written_words) = mode.n + 1

(* C5: in Duration(d) mode a Finalized session has elapsed time > d, and a *)
(* started Active session with elapsed time > d is eventually Finalized    *)
(* unless the user quits.                                                  *)
C5_DurationEnds ==
    /\ []((mode.kind = "Duration" /\ app_state = "Stats") => Elapsed > mode.n)
    /\ (mode.kind = "Duration" /\ app_state = "Typing" /\ Started
          /\ Elapsed > mode.n)
       ~> (app_state = "Stats" \/ pc = "exited")

(* C6: once Finalized the state stays Finalized and the StatsState (final  *)
(* stats, accuracy, both series) is never changed by a key event or a tick.*)
C6_FinalizedIsTerminal ==
    [][app_state = "Stats" => app_state' = "Stats" /\ stats' = stats]_vars

(* a Finalized session that has been handed a poll result *)
C6_Witness ==
    /\ app_state = "Stats"
    /\ pc = "update"

(* C7: the step that reads a quit key leaves the loop without touching the *)
(* session: no handle_event, no update, no transition, no StatsState.      *)
C7_QuitIsImmediate ==
    [][pc' = "exited" =>
        UNCHANGED <<app_state, stats, start_time, written_words, key_strokes,
                    rows>>]_vars

(* the user quit a Duration session that was past its deadline *)
C7_Witness ==
    /\ pc = "exited"
    /\ app_state = "Typing"
    /\ mode.kind = "Duration"
    /\ Started
    /\ Elapsed > mode.n

(* C8: rendering an Active session twice with the same viewport and no key *)
(* event in between draws the same cells and cursor and leaves the same    *)
(* rows the second time as the first.                                      *)
C8_RenderIdempotent ==
    (app_state = "Typing" /\ pc = "draw") =>
        \A rect \in Areas :
            LET first == render(rect, rows, word_list, written_words)
                second == render(rect, first.rows, word_list, written_words)
            IN  second = first

(* C9: no operation indexes word_list outside its bounds.                  *)
C9_NoOutOfBounds == pc # "panicked"

(* C10: the FinalStats of a Finalized session are calculate(written_words  *)
(* as the input words, word_list as the target words).                     *)
C10_StatsRoles ==
    app_state = "Stats" =>
        stats[1].final_stats
            = calculate(written_words, word_list, stats[1].test_duration)

(* C11: the step that finalizes a session stores, and normalizes wpm and   *)
(* raw wpm by, the time elapsed since the start in Words mode and the      *)
(* configured duration d, whatever time has elapsed, in Duration mode.     *)
C11_NormalizingDuration ==
    [][(app_state = "Typing" /\ app_state' = "Stats") =>
        LET used == IF mode.kind = "Words" THEN Elapsed ELSE mode.n
            st == stats'[1]
            chars == CalculateFold(DefaultFinalStats, 0, word_list, written_words)
        IN  /\ st.test_duration = used
            /\ st.final_stats.wpm = normalize_wpm(chars.wpm, <<used, 1>>)
            /\ st.final_stats.raw_wpm = normalize_wpm(chars.raw_wpm, <<used, 1>>)]_vars

(* a Duration session finalized after more than d had elapsed *)
C11_Witness ==
    /\ app_state = "Stats"
    /\ mode.kind = "Duration"
    /\ stats[1].test_duration = mode.n
    /\ Elapsed > mode.n

----------------------------------------------------------------------------
(* Properties of the functions of states/stats.rs *)

RECURSIVE SeqSum(_)
SeqSum(q) == IF q = <<>> THEN 0 ELSE Head(q) + SeqSum(Tail(q))

StrictPrefix(input, target) ==
    /\ Len(input) < Len(target)
    /\ \A k \in 1..Len(input) : input[k] = target[k]

(* the unit tests of stats.rs *)
word_dif_extra ==
    word_difference(<<"a", "a", "b", "b", "c">>,
                    <<"a", "h", "h", "b", "c", "a", "a">>)
    = <<"Correct", "Incorrect", "Incorrect", "Correct", "Correct", "Extra", "Extra">>

word_dif_missed ==
    word_difference(<<"b", "b", "b", "d", "a", "s">>, <<"b", "b", "b">>)
    = <<"Correct", "Correct", "Correct", "Missed", "Missed", "Missed">>

(* C12: word_difference(target, input) has max(len(target), len(input))    *)
(* items; item k is Correct where both words have an equal character at k, *)
(* Incorrect where both have one and they differ, Extra where only the     *)
(* input has one and Missed where only the target has one.                 *)
C12_WordDifference ==
    call.op = "word_difference" =>
        LET target == call.args[1]
            input == call.args[2]
            d == call.result
        IN  /\ Len(d) = Max(Len(target), Len(input))
            /\ \A k \in 1..Len(d) :
                d[k] = IF k <= Len(target) /\ k <= Len(input)
                       THEN (IF target[k] = input[k] THEN "Correct" ELSE "Incorrect")
                       ELSE IF k <= Len(input) THEN "Extra"
                       ELSE "Missed"
            /\ word_dif_extra
            /\ word_dif_missed

(* a longer input with a wrong character, and a longer target *)
C12_Witness ==
    /\ call.op = "word_difference"
    /\ Len(call.args[1]) < Len(call.args[2])
    /\ \E k \in DOMAIN call.result : call.result[k] = "Incorrect"
    /\ \E k \in DOMAIN call.result : call.result[k] = "Extra"

(* the characters pair k of a calculate call adds to wpm and to raw_wpm,   *)
(* as C13 states them                                                      *)
WpmChars(inputs, targets, k) ==
    IF inputs[k] = targets[k] THEN Len(inputs[k]) + 1
    ELSE IF k = Len(inputs) /\ StrictPrefix(inputs[k], targets[k]) THEN Len(inputs[k])
    ELSE 0

RawWpmChars(inputs, targets, k) ==
    IF inputs[k] = targets[k] THEN Len(inputs[k]) + 1
    ELSE IF k = Len(inputs) /\ StrictPrefix(inputs[k], targets[k]) THEN Len(inputs[k])
    ELSE Len(inputs[k]) + 1

W3(a, b, c) == <<a, b, c>>

final_stats_errors ==
    calculate(<<W3("b", "b", "c"), W3("b", "d", "a"), W3("c", "d", "q"), <<"a">>>>,
              <<W3("d", "a", "c"), <<"b", "b">>, <<"c", "d">>, W3("a", "a", "a")>>,
              12)
    = [wpm |-> <<1, 1>>, raw_wpm |-> <<13, 1>>, correct |-> 5, extra |-> 2,
       incorrect |-> 3, missed |-> 0]

final_stats_duration ==
    LET aaaa == <<"a", "a", "a", "a">>
    IN  calculate(<<aaaa, aaaa, aaaa, aaaa>>, <<aaaa, aaaa, aaaa, aaaa>>, 60)
        = [wpm |-> <<4, 1>>, raw_wpm |-> <<4, 1>>, correct |-> 16, extra |-> 0,
           incorrect |-> 0, missed |-> 0]

(* C13: over the pairs by position, a word equal to its target adds        *)
(* len + 1 to the wpm and raw wpm character counts, a final word that is a *)
(* strict prefix of its target adds len to both, any other word adds       *)
(* len + 1 to raw wpm only; both are normalized as chars / 5 * (60 / s).   *)
C13_CharacterAccounting ==
    call.op = "calculate" =>
        LET inputs == call.args[1]
            targets == call.args[2]
            secs == call.args[3]
            n == Min(Len(inputs), Len(targets))
            wpm == SeqSum([k \in 1..n |-> WpmChars(inputs, targets, k)])
            raw == SeqSum([k \in 1..n |-> RawWpmChars(inputs, targets, k)])
        IN  /\ call.result.wpm = Rat(wpm * 60, 5 * secs)
            /\ call.result.raw_wpm = Rat(raw * 60, 5 * secs)
            /\ final_stats_errors
            /\ final_stats_duration

(* a mistyped first word and a last word stopped part way *)
C13_Witness ==
    /\ call.op = "calculate"
    /\ Len(call.args[1]) = 2 /\ Len(call.args[2]) = 2
    /\ call.args[1][1] # call.args[2][1]
    /\ call.args[1][2] # <<>>
    /\ StrictPrefix(call.args[1][2], call.args[2][2])

(* the number of items of each kind pair k of a calculate call adds, as    *)
(* C14 states them: the whole alignment for a word that is not the last,   *)
(* the typed length only for the last                                      *)
KindCount(inputs, targets, k, kind) ==
    LET input == inputs[k]
        target == targets[k]
        both == Min(Len(input), Len(target))
    IN  CASE kind = "Correct" ->
                Cardinality({j \in 1..both : input[j] = target[j]})
          [] kind = "Incorrect" ->
                Cardinality({j \in 1..both : input[j] # target[j]})
          [] kind = "Extra" -> Max(Len(input) - Len(target), 0)
          [] kind = "Missed" ->
                IF k = Len(inputs) THEN 0 ELSE Max(Len(target) - Len(input), 0)

final_stats_all_correct ==
    calculate(<<W3("d", "a", "c"), <<"b">>>>, <<W3("d", "a", "c"), <<"b", "b">>>>, 12)
    = [wpm |-> <<5, 1>>, raw_wpm |-> <<5, 1>>, correct |-> 4, extra |-> 0,
       incorrect |-> 0, missed |-> 0]

final_stats_missed ==
    calculate(<<<<"b", "b">>, <<"b">>, <<"h", "a">>, <<"b">>>>,
              <<<<"b", "b", "a", "a">>, <<"b", "a", "a", "a">>,
                <<"h", "a", "a", "a">>, <<"b">>>>,
              12)
    = [wpm |-> <<2, 1>>, raw_wpm |-> <<10, 1>>, correct |-> 6, extra |-> 0,
       incorrect |-> 0, missed |-> 7]

(* C14: every pair but the last is diffed over the full alignment, untyped *)
(* target characters counting as Missed and surplus input characters as    *)
(* Extra; the last typed word is compared with the typed-length part of    *)
(* its target only, so a last word that is a strict prefix of its target   *)
(* counts its characters as Correct and adds nothing to Missed.            *)
C14_CharacterClassification ==
    call.op = "calculate" =>
        LET inputs == call.args[1]
            targets == call.args[2]
            n == Min(Len(inputs), Len(targets))
            Total(kind) == SeqSum([k \in 1..n |-> KindCount(inputs, targets, k, kind)])
        IN  /\ call.result.correct = Total("Correct")
            /\ call.result.incorrect = Total("Incorrect")
            /\ call.result.extra = Total("Extra")
            /\ call.result.missed = Total("Missed")
            /\ final_stats_all_correct
            /\ final_stats_missed

(* a first word with untyped characters and a last word stopped part way *)
C14_Witness ==
    /\ call.op = "calculate"
    /\ Len(call.args[1]) = 2 /\ Len(call.args[2]) = 2
    /\ StrictPrefix(call.args[1][1], call.args[2][1])
    /\ StrictPrefix(call.args[1][2], call.args[2][2])
    /\ call.result.missed = Len(call.args[2][1]) - Len(call.args[1][1])

IsCorrectStroke(k) == k.kind = "Correct"

IsIncorrectStroke(k) == k.kind = "Incorrect" \/ (k.kind = "Space" /\ k.n # 0)

IsCharStroke(k) == k.kind \in {"Correct", "Incorrect"}

(* C15: the accuracy of a Finalized session is correct / (correct +        *)
(* incorrect) over the keystroke log alone: Correct events over Correct    *)
(* events plus Incorrect events plus Space events with nonzero overflow;   *)
(* characters removed again by backspace stay counted.                     *)
C15_Accuracy ==
    app_state = "Stats" =>
        LET correct == Len(SelectSeq(key_strokes, IsCorrectStroke))
            incorrect == Len(SelectSeq(key_strokes, IsIncorrectStroke))
        IN  /\ stats[1].accuracy = Rat(correct, correct + incorrect)
            /\ stats[1].key_strokes = key_strokes

(* a session finalized with a zero-overflow Space in its log and a typed   *)
(* character that is no longer in the buffers                              *)
C15_Witness ==
    /\ app_state = "Stats"
    /\ \E k \in DOMAIN key_strokes : key_strokes[k].kind = "Correct"
    /\ \E k \in DOMAIN key_strokes :
            key_strokes[k].kind = "Space" /\ key_strokes[k].n = 0
    /\ SeqSum([k \in DOMAIN written_words |-> Len(written_words[k])])
         < Len(SelectSeq(key_strokes, IsCharStroke))

CeilDiv(a, b) == CHOOSE q \in 0..(a + 1) : (q - 1) * b < a /\ a <= q * b

(* the unit tests of batch_key_strokes, with times in tenths of a second *)
BatchTestLog ==
    <<Correct("a", 1), Correct("a", 5), Space(0, 8), Incorrect("b", 11),
      Correct("d", 13)>>

batch_ks ==
    batch_key_strokes(BatchTestLog, <<10, 1>>)
    = <<[t |-> <<10, 1>>, chars |-> 3, errors |-> 0],
        [t |-> <<20, 1>>, chars |-> 2, errors |-> 1]>>

batch_ks_time_step ==
    batch_key_strokes(BatchTestLog, <<4, 1>>)
    = <<[t |-> <<4, 1>>, chars |-> 1, errors |-> 0],
        [t |-> <<8, 1>>, chars |-> 2, errors |-> 0],
        [t |-> <<12, 1>>, chars |-> 1, errors |-> 1],
        [t |-> <<16, 1>>, chars |-> 1, errors |-> 0]>>

(* C16: for a time-ordered log, batch_key_strokes returns one entry per    *)
(* distinct key ceil(elapsed / time_step), in increasing key order, each   *)
(* (key * time_step, number of events with that key, number of Incorrect   *)
(* events with that key); the event counts sum to the length of the log.   *)
C16_TimeBuckets ==
    call.op = "batch_key_strokes" =>
        LET ks == call.args[1]
            ts == call.args[2]
            res == call.result
            KeyOf(k) == CeilDiv(ks[k].time * ts[2], ts[1])
            Keys == {KeyOf(k) : k \in DOMAIN ks}
            In(key) == {k \in DOMAIN ks : KeyOf(k) = key}
        IN  /\ Len(res) = Cardinality(Keys)
            /\ \A j \in DOMAIN res : \E key \in Keys :
                /\ res[j].t = Rat(key * ts[1], ts[2])
                /\ res[j].chars = Cardinality(In(key))
                /\ res[j].errors =
                     Cardinality({k \in In(key) : ks[k].kind = "Incorrect"})
            /\ \A j \in 1..Len(res) - 1 :
                res[j].t[1] * res[j + 1].t[2] < res[j + 1].t[1] * res[j].t[2]
            /\ SeqSum([j \in DOMAIN res |-> res[j].chars]) = Len(ks)
            /\ batch_ks
            /\ batch_ks_time_step

(* two buckets, one of them holding an Incorrect event and another event *)
C16_Witness ==
    /\ call.op = "batch_key_strokes"
    /\ Len(call.result) >= 2
    /\ \E j \in DOMAIN call.result :
        call.result[j].errors > 0 /\ call.result[j].chars > call.result[j].errors

----------------------------------------------------------------------------
(* Properties of the key handlers *)

(* the step is the Active session's handle_event applied to key *)
Handled(key) ==
    /\ pc = "poll"
    /\ app_state = "Typing"
    /\ ~handle_event(key)
    /\ LET t == typing_handle_event(key, written_words, word_list, key_strokes,
                                    start_time, now)
       IN  /\ written_words' = t.written_words
           /\ key_strokes' = t.key_strokes
           /\ start_time' = t.start_time
           /\ pc' = IF t.panic THEN "panicked" ELSE "update"

IsRemoveWordKey(key) ==
    key.kind = "Press" /\ key.ctrl /\ key.code \in {"w", "Backspace"}

IsBackspaceKey(key) ==
    key.kind = "Press" /\ ~key.ctrl /\ key.code = "Backspace"

IsCharKey(key) ==
    key.kind = "Press" /\ key.code \in PrintableChars /\ ~IsRemoveWordKey(key)

IsSpaceKey(key) == key.kind = "Press" /\ key.code = " "

IsPrefix(p, q) == Len(p) <= Len(q) /\ SubSeq(q, 1, Len(p)) = p

ActiveBuffer == Last(written_words)

(* the target word at the active index, when the word list has one *)
HasTarget == Len(written_words) <= Len(word_list)

ActiveTarget == word_list[Len(written_words)]

(* C17: every step leaves the log's entries in place as a prefix of the    *)
(* new log; a backspace, control-backspace or Ctrl+W leaves the log as it  *)
(* is; a character or space appends exactly one entry.                     *)
C17_LogAppendOnly ==
    [][/\ IsPrefix(key_strokes, key_strokes')
       /\ \A key \in KeyEvents : Handled(key) =>
            /\ (IsBackspaceKey(key) \/ IsRemoveWordKey(key))
                  => key_strokes' = key_strokes
            /\ (IsCharKey(key) \/ IsSpaceKey(key))
                  => Len(key_strokes') = Len(key_strokes) + 1]_vars

C20_Backspace ==
    [][\A key \in KeyEvents : (Handled(key) /\ IsBackspaceKey(key)) =>
        LET len == Len(written_words)
        IN  written_words' =
                IF ActiveBuffer # <<>>
                THEN [written_words EXCEPT ![len] = Front(@)]
                ELSE IF len > 1 /\ written_words[len - 1] # word_list[len - 1]
                     THEN Front(written_words)
                     ELSE written_words]_vars

(* a mistyped word reopened with its contents: the last log entry is the   *)
(* Space that closed it                                                    *)
C20_Witness ==
    /\ app_state = "Typing"
    /\ pc = "update"
    /\ key_strokes # <<>>
    /\ Last(key_strokes).kind = "Space"
    /\ ActiveBuffer # <<>>
    /\ Len(written_words) <= NumSpaces(key_strokes)

(* C21 as stated: a control-backspace or Ctrl+W clears a non-empty current *)
(* word; on an empty current word it reopens and clears the previous word, *)
(* leaving the active buffer empty and one buffer fewer.                   *)
C21_RemoveWordAlwaysReopens ==
    [][\A key \in KeyEvents : (Handled(key) /\ IsRemoveWordKey(key)) =>
        LET len == Len(written_words)
        IN  IF ActiveBuffer # <<>>
            THEN written_words' = [written_words EXCEPT ![len] = <<>>]
            ELSE /\ Len(written_words') = len - 1
                 /\ Last(written_words') = <<>>]_vars

(* C21, amended: a control-backspace or Ctrl+W clears a non-empty current  *)
(* word; on an empty current word it reopens and clears the previous word  *)
(* (one buffer fewer, the active one empty, the earlier ones as they were) *)
(* exactly when a previous buffer exists and differs from its target word; *)
(* otherwise the buffers stay as they are.                                 *)
C21_RemoveWord ==
    [][\A key \in KeyEvents : (Handled(key) /\ IsRemoveWordKey(key)) =>
        LET len == Len(written_words)
        IN  written_words' =
                IF ActiveBuffer # <<>>
                THEN [written_words EXCEPT ![len] = <<>>]
                ELSE IF len > 1 /\ written_words[len - 1] # word_list[len - 1]
                     THEN [Front(written_words) EXCEPT ![len - 1] = <<>>]
                     ELSE written_words]_vars

(* a mistyped, closed word has been reopened and is empty: the log ends    *)
(* with its character and the Space that closed it                         *)
C21_Witness ==
    /\ app_state = "Typing"
    /\ pc = "update"
    /\ Len(key_strokes) >= 2
    /\ Last(key_strokes).kind = "Space"
    /\ IsCharStroke(key_strokes[Len(key_strokes) - 1])
    /\ ActiveBuffer = <<>>
    /\ Len(written_words) = NumSpaces(key_strokes)

(* buffer k (from 1) is closed and equal to its target word *)
SubmittedCorrect(k) ==
    /\ k < Len(written_words)
    /\ k <= Len(word_list)
    /\ written_words[k] = word_list[k]

(* C24: a buffer that is closed and equal to its target word is still      *)
(* there, with the same contents, after every step.                        *)
C24_CorrectWordsFrozen ==
    [][\A k \in 1..Len(written_words) : SubmittedCorrect(k) =>
         /\ Len(written_words') >= k
         /\ written_words'[k] = written_words[k]]_vars

(* a word was submitted correct, and a character typed after it has been   *)
(* taken back                                                              *)
C24_Witness ==
    /\ app_state = "Typing"
    /\ pc = "update"
    /\ Len(written_words) = 2
    /\ SubmittedCorrect(1)
    /\ written_words[1] # <<>>
    /\ ActiveBuffer = <<>>
    /\ IsCharStroke(Last(key_strokes))

----------------------------------------------------------------------------
(* The loop on a terminal that is never resized *)

(* the rectangle text_box_layout[1] of a terminal 22 columns wide that     *)
(* leaves the Max(3) constraint its 3 rows                                 *)
FixedArea == [width |-> 2, height |-> MaxHeight]

DrawFixed ==
    /\ pc = "draw"
    /\ UNCHANGED call
    /\ pc' = "poll"
    /\ rows' = IF app_state = "Typing"
               THEN render(FixedArea, rows, word_list, written_words).rows
               ELSE rows
    /\ UNCHANGED <<now, app_state, written_words, start_time, word_list,
                   key_strokes, mode, stats>>

FixedNext == DrawFixed \/ PollNone \/ PollKey \/ Update \/ Tick

FixedSpec == Init /\ [][FixedNext]_vars

(* C22: on a viewport of fixed size, whenever the session is about to be   *)
(* drawn and the active word has a target to be drawn with, the first      *)
(* tracked row start does not lie after the active word and the render     *)
(* lays the active word out on a row < height.                             *)
C22_ActiveLineVisible ==
    (pc = "draw" /\ app_state = "Typing" /\ HasTarget) =>
        LET drawn == render(FixedArea, rows, word_list, written_words)
        IN  /\ rows[1] <= Len(written_words) - 1
            /\ drawn.cursor # None

----------------------------------------------------------------------------
(* Properties of the render *)

(* the render of the session as it is now in rectangle rect *)
Drawn(rect) == render(rect, rows, word_list, written_words)

(* the position, among the cells a render draws, of the active word *)
ActiveCell == Len(written_words) - rows[1]

ActiveLaidOut(rect) == ActiveCell >= 1 /\ ActiveCell <= Len(Drawn(rect).cells)

(* C23 as stated: the cursor is at (origin column + length of the input,   *)
(* row) of the active word, and at column 0 of the next row if that column *)
(* is exactly the viewport width.                                          *)
C23_CursorWrapsAtWidth ==
    (pc = "draw" /\ app_state = "Typing") =>
        \A rect \in Areas : ActiveLaidOut(rect) =>
            LET cell == Drawn(rect).cells[ActiveCell]
                column == cell.x + Len(ActiveBuffer)
            IN  Drawn(rect).cursor =
                    Some(IF column = rect.width THEN <<0, cell.y + 1>>
                         ELSE <<column, cell.y>>)

(* C23, amended: the cursor is at (origin column + length of the input,    *)
(* row) of the active word, and at column 0 of the next row if that column *)
(* is at or past the viewport width.                                       *)
C23_CursorCell ==
    (pc = "draw" /\ app_state = "Typing") =>
        \A rect \in Areas : ActiveLaidOut(rect) =>
            LET cell == Drawn(rect).cells[ActiveCell]
                column == cell.x + Len(ActiveBuffer)
            IN  Drawn(rect).cursor =
                    Some(IF column >= rect.width THEN <<0, cell.y + 1>>
                         ELSE <<column, cell.y>>)

(* an input wider than the viewport: the cursor column is past the width   *)
(* and the cursor is on the next row                                       *)
C23_Witness ==
    /\ pc = "draw"
    /\ app_state = "Typing"
    /\ \E rect \in Areas :
        /\ ActiveLaidOut(rect)
        /\ Drawn(rect).cells[ActiveCell].x + Len(ActiveBuffer) > rect.width
        /\ Drawn(rect).cursor = Some(<<0, Drawn(rect).cells[ActiveCell].y + 1>>)

(* C25: the row starts carried from one render to the next always have at  *)
(* least one element, and so have the rows any render would leave.         *)
C25_RowsNeverEmpty ==
    /\ Len(rows) >= 1
    /\ (pc = "draw" /\ app_state = "Typing") =>
          \A rect \in Areas : Len(Drawn(rect).rows) >= 1

(* a render has scrolled: its remove(0) took the first row start away *)
C25_Witness ==
    /\ app_state = "Typing"
    /\ pc = "poll"
    /\ rows[1] > 0

----------------------------------------------------------------------------
(* Relations between the fields FinalStats::calculate returns *)

(* a <= b for two f64 values held as fractions with positive denominators *)
RatLeq(a, b) == a[1] * b[2] <= b[1] * a[2]

(* the number of pairs zip makes of the two arrays *)
Paired(inputs, targets) == Min(Len(inputs), Len(targets))

(* C26: for any input and target word arrays and any positive duration,    *)
(* calculate returns wpm <= raw_wpm, and correct + incorrect + extra is    *)
(* the total length of the input words that are paired with a target word. *)
C26_StatsRelations ==
    call.op = "calculate" =>
        LET inputs == call.args[1]
            targets == call.args[2]
            res == call.result
        IN  /\ RatLeq(res.wpm, res.raw_wpm)
            /\ res.correct + res.incorrect + res.extra
                 = SeqSum([k \in 1..Paired(inputs, targets) |-> Len(inputs[k])])

(* a call with an input word left unpaired, an extra character and         *)
(* wpm < raw_wpm                                                           *)
C26_Witness ==
    /\ call.op = "calculate"
    /\ Len(call.args[1]) > Len(call.args[2])
    /\ Len(call.args[2]) >= 1
    /\ Len(call.args[1][Len(call.args[1])]) > 0
    /\ call.result.extra > 0
    /\ ~RatLeq(call.result.raw_wpm, call.result.wpm)

====
